---- MODULE Spec2Model ----
(***************************************************************************)
(* MeetingService (src/app.py): meetings and agenda items kept in MongoDB, *)
(* HTTP handlers run as concurrently scheduled greenlets that can be       *)
(* switched at every database call and every broadcast, and Socket.IO      *)
(* rooms keyed by meeting id.                                              *)
(*                                                                         *)
(* Scope.  Request bodies are JSON objects or absent; an agenda item is a  *)
(* JSON object.  MongoDB calls succeed and are atomic per call; find()     *)
(* and find_one() answer in insertion order.  uuid4() never repeats.  A    *)
(* broadcast either reaches every member of the room at that instant or    *)
(* raises, which ends the handler with status 500.                         *)
(***************************************************************************)
EXTENDS Integers, Sequences, FiniteSets, TLC

(***************************************************************************)
(* Bounds of the model.                                                    *)
(***************************************************************************)
MaxMeetings == 2      \* create_meeting requests started
MaxItems == 2         \* add_agenda_item requests that reach insert_one
MaxAdvances == 2      \* update_meeting requests that reach count_documents
MaxSocketMsgs == 2    \* Socket.IO messages handled
MaxDraw == 1          \* random.randint draws come from 0..MaxDraw
MaxFetches == 1       \* get_meeting and get_agenda_items requests between their reads

\* random.randint(0, 999999), line 69
CodeMax == 999999
\* f"{...:06d}", line 69, and len(code) != 6, line 344
CodeLen == 6

Procs == {1, 2}          \* greenlets serving HTTP requests
Conns == {"c1", "c2"}          \* connected Socket.IO clients

None == "<None>"

(***************************************************************************)
(* JSON values.  A scalar is [k, s]: k is the Python type, s the text of   *)
(* the value.  A list is [k |-> "list", l |-> elements]; a list element    *)
(* is a scalar or an object [k |-> "dict", d |-> key -> scalar].           *)
(***************************************************************************)
Str(s) == [k |-> "str", s |-> s, l |-> <<>>]
Num(s) == [k |-> "int", s |-> s, l |-> <<>>]
List(l) == [k |-> "list", s |-> "", l |-> l]
EStr(s) == [k |-> "str", s |-> s, d |-> <<>>]
EInt(s) == [k |-> "int", s |-> s, d |-> <<>>]
EDict(d) == [k |-> "dict", s |-> "", d |-> d]

IsStr(v) == v.k = "str"
IsList(v) == v.k = "list"

(***************************************************************************)
(* verify_agenda_item, lines 90-128.  The result is the error message of   *)
(* the 400 response, or None.                                              *)
(***************************************************************************)
Has(item, key) == key \in DOMAIN item

\* lines 102-104: the first position that is not a str
PositionsError(ps) ==
    IF \E i \in 1..Len(ps) : ~IsStr(ps[i])
    THEN "Election agenda item positions must be strings"
    ELSE None

\* lines 112-119, for one element of baseMotions
BaseMotionError(bm) ==
    IF bm.k # "dict"
    THEN "Motion agenda item baseMotions must be objects"
    ELSE IF ~Has(bm.d, "owner") \/ ~IsStr(bm.d["owner"])
    THEN "Motion agenda item baseMotions must have owner"
    ELSE IF ~Has(bm.d, "motion") \/ ~IsStr(bm.d["motion"])
    THEN "Motion agenda item baseMotions must have motion"
    ELSE None

\* lines 111-119: the loop returns at the first element with an error
BaseMotionsError(bms) ==
    LET bad == {i \in 1..Len(bms) : BaseMotionError(bms[i]) # None}
    IN  IF bad = {} THEN None
        ELSE BaseMotionError(bms[CHOOSE i \in bad : \A j \in bad : i <= j])

\* lines 98-126: match item["type"]
VariantError(item) ==
    LET t == item["type"]
    IN  IF IsStr(t) /\ t.s = "election"
        THEN IF ~Has(item, "positions") \/ ~IsList(item["positions"])
             THEN "Election agenda item must have positions list"
             ELSE PositionsError(item["positions"].l)
        ELSE IF IsStr(t) /\ t.s = "motion"
        THEN IF ~Has(item, "description") \/ ~IsStr(item["description"])
             THEN "Motion agenda item must have description"
             ELSE IF ~Has(item, "baseMotions") \/ ~IsList(item["baseMotions"])
             THEN "Motion agenda item must have baseMotions list"
             ELSE BaseMotionsError(item["baseMotions"].l)
        ELSE IF IsStr(t) /\ t.s = "info"
        THEN IF ~Has(item, "description") \/ ~IsStr(item["description"])
             THEN "Info agenda item must have description"
             ELSE None
        ELSE "Invalid agenda item type"

verify_agenda_item(item) ==
    IF ~Has(item, "type")
    THEN "Agenda item must include type"
    ELSE IF ~Has(item, "title") \/ ~IsStr(item["title"])
    THEN "Agenda item must have title"
    ELSE VariantError(item)

(***************************************************************************)
(* serialize_agenda_item, lines 130-157: the error of verify_agenda_item,  *)
(* or the item cut down to the keys of its variant.                        *)
(***************************************************************************)
\* a codec that hands the validated item on as it came
ProjectNothing(item, keys) == item

\* lines 139-155: the dict literal of the variant
Project(item, keys) == [key \in keys |-> item[key]]

VariantKeys(t) ==
    IF t = "election" THEN {"type", "title", "positions"}
    ELSE IF t = "motion" THEN {"type", "title", "description", "baseMotions"}
    ELSE {"type", "title", "description"}

Accepted(item) == [ok |-> TRUE, item |-> item, error |-> None]
Rejected(msg) == [ok |-> FALSE, item |-> <<>>, error |-> msg]
\* line 157: the second match falls through and the function returns None
ReturnedNone == [ok |-> FALSE, item |-> <<>>, error |-> None]

serialize_agenda_item(item) ==
    LET result == verify_agenda_item(item)
        t == item["type"]
    IN  IF result # None
        THEN Rejected(result)
        ELSE IF IsStr(t) /\ t.s \in {"election", "motion", "info"}
        THEN Accepted(Project(item, VariantKeys(t.s)))
        ELSE ReturnedNone

(***************************************************************************)
(* Inputs of the codec: every JSON object over these keys and values.      *)
(***************************************************************************)
Absent == [k |-> "absent", s |-> "", l |-> <<>>]

GoodMotion == EDict([owner |-> EStr("alice"), motion |-> EStr("Adopt the budget")])

KeyValues(key) ==
    IF key = "type"
    THEN {Str("election"), Str("motion"), Str("info"), Str("poll"), Num("1")}
    ELSE IF key = "title"
    THEN {Str("Welcome"), Str(""), Num("7")}
    ELSE IF key = "description"
    THEN {Str("Intro remarks"), Num("7")}
    ELSE IF key = "positions"
    THEN {List(<<>>), List(<<EStr("Chair")>>), List(<<EStr("Chair"), EInt("3")>>),
          Str("Chair")}
    ELSE IF key = "baseMotions"
    THEN {List(<<>>), List(<<GoodMotion>>),
          List(<<GoodMotion, EDict([owner |-> EStr("bob")])>>),
          List(<<EDict([owner |-> EInt("5"), motion |-> EStr("x")]), EStr("y")>>),
          List(<<EStr("y"), EDict(<<>>)>>),
          Str("none")}
    ELSE {Str("remark")}

ItemKeys == {"type", "title", "description", "positions", "baseMotions", "comment"}

Options(key) == KeyValues(key) \cup {Absent}

\* the object holding the keys whose option is a value
MakeItem(opt) ==
    [key \in {q \in ItemKeys : opt[q] # Absent} |-> opt[key]]


(***************************************************************************)
(* Identifiers.                                                            *)
(***************************************************************************)
\* what successive uuid4() calls return (line 186), in canonical spelling
UuidPool ==
    << "11111111-1111-4111-8111-111111111111",
       "22222222-2222-4222-8222-222222222222",
       "33333333-3333-4333-8333-333333333333",
       "44444444-4444-4444-8444-444444444444" >>

\* other spellings uuid.UUID() accepts for the same identifiers
UuidBraced ==
    << "{11111111-1111-4111-8111-111111111111}",
       "{22222222-2222-4222-8222-222222222222}",
       "{33333333-3333-4333-8333-333333333333}",
       "{44444444-4444-4444-8444-444444444444}" >>

NotAUuid == "not-a-uuid"

\* to_uuid, lines 59-64: the canonical spelling, or None
to_uuid(id_str) ==
    IF \E i \in 1..Len(UuidPool) : id_str \in {UuidPool[i], UuidBraced[i]}
    THEN UuidPool[CHOOSE i \in 1..Len(UuidPool) : id_str \in {UuidPool[i], UuidBraced[i]}]
    ELSE None

Digits == <<"0", "1", "2", "3", "4", "5", "6", "7", "8", "9">>

RECURSIVE Decimal(_)
Decimal(n) ==
    IF n < 10 THEN <<Digits[n + 1]>>
    ELSE Decimal(n \div 10) \o <<Digits[(n % 10) + 1]>>

RECURSIVE ZeroPad(_, _)
ZeroPad(chars, width) ==
    IF Len(chars) >= width THEN chars ELSE ZeroPad(<<"0">> \o chars, width)

\* f"{n:06d}", line 69; a code is the sequence of its characters
FormatCode(n) == ZeroPad(Decimal(n), CodeLen)

\* the values random.randint(0, 999999) takes in the model
Draws == 0..(IF MaxDraw < CodeMax THEN MaxDraw ELSE CodeMax)

\* str.isdigit(), line 344
IsDigit(chars) ==
    /\ Len(chars) > 0
    /\ \A i \in 1..Len(chars) : \E d \in 1..Len(Digits) : chars[i] = Digits[d]

(***************************************************************************)
(* State.                                                                  *)
(***************************************************************************)
VARIABLES
    meetings,       \* mongo.db.meetings, in insertion order
    agenda_items,   \* mongo.db.agenda_items, in insertion order
    rooms,          \* Socket.IO room name -> connections in the room
    inbox,          \* connection -> events delivered to it, in order
    proc,           \* greenlet -> the handler it runs and its local variables
    uuids,          \* number of uuid4() calls made
    advances,       \* number of update_meeting calls that passed validation
    socket_msgs,    \* number of Socket.IO messages handled
    load,           \* the requests this run may see, fixed at the start
    wire,           \* the broadcast made by the last step, NoWire if none
    written,        \* history: the update_one calls made, in order
    created,        \* history: the 201 responses of create_meeting
    joined,         \* history: connection -> rooms it asked to join and has not left
    codec_in,       \* the item handed to serialize_agenda_item
    codec_out       \* what it returned, NotRun before the call

main_vars == <<meetings, agenda_items, rooms, inbox, proc, uuids, advances,
               socket_msgs, load, wire, written, created, joined>>
codec_vars == <<codec_in, codec_out>>
NotRun == [ok |-> FALSE, item |-> <<>>, error |-> "<not run>"]
vars == <<meetings, agenda_items, rooms, inbox, proc, uuids, advances,
          socket_msgs, load, wire, written, created, joined, codec_in, codec_out>>

\* the request mixes explored: how many create_meeting calls, add_agenda_item
\* calls that reach insert_one, update_meeting calls that reach
\* count_documents and Socket.IO messages one run may see, and how many
\* get_meeting and get_agenda_items requests may be between their two reads
\* (the reads and the Socket.IO handlers touch no common state)
Loads ==
    { [meetings |-> MaxMeetings, items |-> MaxItems, advances |-> 0,
       socket_msgs |-> 0, fetches |-> MaxFetches],
      [meetings |-> MaxMeetings, items |-> 1, advances |-> 1,
       socket_msgs |-> 0, fetches |-> MaxFetches],
      [meetings |-> 1, items |-> MaxItems, advances |-> MaxAdvances,
       socket_msgs |-> 0, fetches |-> MaxFetches],
      [meetings |-> 1, items |-> 1, advances |-> 1,
       socket_msgs |-> MaxSocketMsgs, fetches |-> 0],
      [meetings |-> MaxMeetings, items |-> 1, advances |-> 0,
       socket_msgs |-> MaxSocketMsgs, fetches |-> 0],
      [meetings |-> 1, items |-> 0, advances |-> 0,
       socket_msgs |-> MaxSocketMsgs + 1, fetches |-> MaxFetches] }

\* the room names clients and handlers use
RoomNames == {UuidPool[i] : i \in 1..MaxMeetings}

\* the <id> path segments of requests
IdInputs == RoomNames \cup {UuidBraced[1], NotAUuid}

NoDoc == [meeting_id |-> None, meeting_name |-> "", current_item |-> 0,
          meeting_code |-> <<>>]

\* request.get_json(): None, or a JSON object
NoBody == [present |-> FALSE, obj |-> <<>>]
Json(obj) == [present |-> TRUE, obj |-> obj]

\* a response: status and JSON body; Pass when the handler goes on
Response(status, body) == [status |-> status, body |-> body]
Pass == Response(0, <<>>)
Error(msg) == [error |-> msg]

Idle == [op |-> "idle", pc |-> "done", uid |-> None, meeting_id |-> None,
         meeting_name |-> "", meeting_code |-> <<>>, body |-> NoBody, new_index |-> 0,
         item_count |-> 0, item |-> <<>>, inserted |-> 0,
         meeting |-> NoDoc, updated_meeting |-> NoDoc, items |-> <<>>, call |-> 0]

\* the greenlets are interchangeable: a request is taken by the first free one
Free(p) ==
    /\ proc[p].pc = "done"
    /\ \A q \in Procs : proc[q].pc = "done" => p <= q

At(p, pc) == proc[p].pc = pc

\* the handler returns its response
Return(p) == proc' = [proc EXCEPT ![p] = Idle]

\* the handler goes on to its next call
Continue(p, locals) == proc' = [proc EXCEPT ![p] = locals]

(***************************************************************************)
(* The database calls of the handlers.                                     *)
(***************************************************************************)
\* find_one({"meeting_id": uid}): the first match, or NoDoc
FindMeetingById(uid) ==
    LET hits == {i \in 1..Len(meetings) : meetings[i].meeting_id = uid}
    IN  IF hits = {} THEN NoDoc
        ELSE meetings[CHOOSE i \in hits : \A j \in hits : i <= j]

\* find_one({"meeting_code": code}): the first match, or NoDoc
FindMeetingByCode(code) ==
    LET hits == {i \in 1..Len(meetings) : meetings[i].meeting_code = code}
    IN  IF hits = {} THEN NoDoc
        ELSE meetings[CHOOSE i \in hits : \A j \in hits : i <= j]

\* list(find({"meeting_id": uid}))
FindItems(uid) == SelectSeq(agenda_items, LAMBDA d : d["meeting_id"] = uid)

\* count_documents({"meeting_id": uid})
CountItems(uid) == Len(FindItems(uid))

\* an update that replaces the document: the name is lost
UpdateReplacesDocument(uid, n) ==
    [i \in 1..Len(meetings) |->
        IF meetings[i].meeting_id = uid
        THEN [meetings[i] EXCEPT !.current_item = n, !.meeting_name = ""]
        ELSE meetings[i]]

\* an update that matches nothing and leaves the collection as it is
UpdateMatchesNothing(uid, n) == meetings

\* update_one({"meeting_id": uid}, {"$set": {"current_item": n}}): first match
UpdateCurrentItem(uid, n) ==
    LET hits == {i \in 1..Len(meetings) : meetings[i].meeting_id = uid}
    IN  IF hits = {} THEN meetings
        ELSE [meetings EXCEPT ![CHOOSE i \in hits : \A j \in hits : i <= j]
                                   .current_item = n]

\* an insert that puts the document first
InsertFirst(collection, doc) == <<doc>> \o collection

\* insert_one appends the document to the collection
InsertOne(collection, doc) == Append(collection, doc)

\* {"meeting_id": uid, **item}, with the _id insert_one gives the document
AgendaDoc(uid, item, oid) ==
    [key \in {"_id", "meeting_id"} \cup DOMAIN item |->
        IF key \in DOMAIN item THEN item[key]
        ELSE IF key = "meeting_id" THEN uid ELSE oid]

\* line 79
WithoutId(d) == [key \in (DOMAIN d) \ {"_id"} |-> d[key]]

\* serialize_meeting, lines 74-88
serialize_meeting(doc, items) ==
    [meeting_id |-> doc.meeting_id,
     meeting_name |-> doc.meeting_name,
     current_item |-> doc.current_item,
     meeting_code |-> doc.meeting_code,
     items |-> [i \in 1..Len(items) |-> WithoutId(items[i])]]

(***************************************************************************)
(* Broadcasts.  An event carries its name, the room it is sent to and its  *)
(* payload; call is history: the request that sent it.                     *)
(***************************************************************************)
Event(name, room, data, call) ==
    [name |-> name, room |-> room, data |-> data, call |-> call]

NoEvent == Event("", None, <<>>, 0)
NoWire == [ev |-> NoEvent, delivered |-> FALSE]

\* an emit that ignores the room and reaches every connection
EveryConnection(members, room) == Conns

\* the members of a room at the instant of the emit
Recipients(members, room) == members[room]

\* emit(name, data, room=room) with the room membership members
Deliver(ev, members) ==
    [c \in Conns |->
        IF c \in Recipients(members, ev.room) THEN Append(inbox[c], ev) ELSE inbox[c]]

\* the emit reaches the room, or it raises and reaches nobody
Emit(ev, members, delivered) ==
    /\ inbox' = IF delivered THEN Deliver(ev, members) ELSE inbox
    /\ wire' = [ev |-> ev, delivered |-> delivered]

\* a step without a broadcast
NoEmit == inbox' = inbox /\ wire' = NoWire

MainInit ==
    /\ meetings = <<>>
    /\ agenda_items = <<>>
    /\ rooms = [r \in RoomNames |-> {}]
    /\ inbox = [c \in Conns |-> <<>>]
    /\ proc = [p \in Procs |-> Idle]
    /\ uuids = 0
    /\ advances = 0
    /\ socket_msgs = 0
    /\ wire = NoWire
    /\ written = <<>>
    /\ created = {}
    /\ joined = [c \in Conns |-> {}]

(***************************************************************************)
(* The request bodies the handlers are given.                              *)
(***************************************************************************)
\* "not body"
Falsy(body) == ~body.present \/ DOMAIN body.obj = {}

\* a JSON number, text or boolean in the body of PATCH
IntVal(n) == [k |-> "int", n |-> n]
TextVal == [k |-> "str", n |-> 0]
BoolVal == [k |-> "bool", n |-> 1]

CreateBodies == {NoBody, Json(<<>>), Json([meeting_name |-> "Board Sync"])}

UpdateBodies ==
    {NoBody, Json(<<>>), Json([meeting_name |-> TextVal])}
    \cup {Json([current_item |-> v]) :
            v \in {IntVal(n) : n \in (-1)..MaxItems} \cup {TextVal, BoolVal}}

Welcome == [type |-> Str("info"), title |-> Str("Welcome"),
            description |-> Str("Intro remarks"), comment |-> Str("remark")]
Board == [type |-> Str("election"), title |-> Str("Board"),
          positions |-> List(<<EStr("Chair")>>)]
Untitled == [type |-> Str("info"), description |-> Str("Intro remarks")]

AddBodies == {NoBody, Json(<<>>)} \cup {Json([item |-> i]) : i \in {Welcome, Board, Untitled}}

CodeInputs ==
    {FormatCode(n) : n \in Draws}
    \cup {<<"1", "2", "3", "4", "5">>, <<"1", "2", "a", "4", "5", "6">>}

(***************************************************************************)
(* create_meeting, lines 173-204, and generate_unique_meeting_code,        *)
(* lines 66-72.  The caller is authenticated.                              *)
(***************************************************************************)
\* lines 180-182
create_meeting_check(body) ==
    IF Falsy(body) \/ ~Has(body.obj, "meeting_name")
    THEN Response(400, Error("meeting_name required"))
    ELSE Pass

\* the loop without its find_one: the first draw is returned
TryCodeUnchecked(locals, n) ==
    [locals EXCEPT !.pc = "insert_meeting", !.meeting_code = FormatCode(n)]

\* lines 69-72: one turn of the loop with the draw n
TryCode(locals, n) ==
    LET code == FormatCode(n)
        existing == FindMeetingByCode(code)
    IN  IF existing = NoDoc
        THEN [locals EXCEPT !.pc = "insert_meeting", !.meeting_code = code]
        ELSE [locals EXCEPT !.pc = "generate_code"]

\* lines 180-187, up to the first find_one of the code loop
CreateMeeting(p, body, n) ==
    /\ Free(p)
    /\ IF create_meeting_check(body) # Pass
       THEN Return(p) /\ UNCHANGED uuids
       ELSE /\ uuids < load.meetings
            /\ uuids' = uuids + 1
            /\ Continue(p, TryCode([Idle EXCEPT !.op = "create_meeting",
                                       !.meeting_id = UuidPool[uuids + 1],
                                       !.meeting_name = body.obj["meeting_name"]], n))
    /\ NoEmit
    /\ UNCHANGED <<meetings, agenda_items, rooms, advances, socket_msgs, load, written,
                   created, joined, codec_vars>>

\* lines 68-72: the code was taken, draw again
RetryCode(p, n) ==
    /\ At(p, "generate_code")
    /\ Continue(p, TryCode(proc[p], n))
    /\ NoEmit
    /\ UNCHANGED <<meetings, agenda_items, rooms, uuids, advances, socket_msgs, load,
                   written, created, joined, codec_vars>>

\* lines 196-204
create_meeting_response(l) ==
    Response(201, [meeting_id |-> l.meeting_id, meeting_name |-> l.meeting_name,
                   current_item |-> 0, items |-> <<>>,
                   meeting_code |-> l.meeting_code])

\* lines 189-204
InsertMeeting(p) ==
    LET l == proc[p]
        doc == [meeting_id |-> l.meeting_id, meeting_name |-> l.meeting_name,
                current_item |-> 0, meeting_code |-> l.meeting_code]
    IN  /\ At(p, "insert_meeting")
        /\ meetings' = InsertOne(meetings, doc)
        /\ created' = created \cup {create_meeting_response(l)}
        /\ Return(p)
        /\ NoEmit
        /\ UNCHANGED <<agenda_items, rooms, uuids, advances, socket_msgs, load,
                       written, joined, codec_vars>>

(***************************************************************************)
(* The handlers that only read.  get_meeting and get_agenda_items read the *)
(* meeting and then the agenda items: two database calls, and any other    *)
(* handler may run between them.                                           *)
(***************************************************************************)
\* the requests that have read the meeting and not yet the items
Fetching == Cardinality({p \in Procs : proc[p].pc = "read_items"})

\* lines 212-218 and 325-331: to_uuid, then find_one of the meeting
read_meeting_check(id) ==
    IF to_uuid(id) = None
    THEN Response(400, Error("Invalid UUID"))
    ELSE IF FindMeetingById(to_uuid(id)) = NoDoc
    THEN Response(404, Error("Meeting not found"))
    ELSE Pass

\* line 222: the meeting read at line 216 with the items read at line 220
get_meeting_response(meeting, found) ==
    Response(200, serialize_meeting(meeting, found))

\* line 335.  The documents go to jsonify with their _id; whether it
\* encodes an ObjectId depends on the installed JSON provider, so a
\* non-empty list answers 200 or 500.
get_agenda_items_response(found, encodes) ==
    IF encodes \/ found = <<>>
    THEN Response(200, found)
    ELSE Response(500, Error("Internal Server Error"))

\* get_meeting_id_from_code, lines 337-351
get_meeting_id_from_code(code) ==
    IF Len(code) # CodeLen \/ ~IsDigit(code)
    THEN Response(400, Error("Invalid meeting code format"))
    ELSE IF FindMeetingByCode(code) = NoDoc
    THEN Response(404, "")
    ELSE Response(200, FindMeetingByCode(code).meeting_id)

\* get_meeting, lines 212-218: up to and including find_one
GetMeeting(p, id) ==
    /\ Free(p)
    /\ IF read_meeting_check(id) # Pass
       THEN Return(p)
       ELSE /\ Fetching < load.fetches
            /\ Continue(p, [Idle EXCEPT !.op = "get_meeting",
                                          !.pc = "read_items",
                                          !.uid = to_uuid(id),
                                          !.meeting = FindMeetingById(to_uuid(id))])
    /\ NoEmit
    /\ UNCHANGED <<meetings, agenda_items, rooms, uuids, advances, socket_msgs, load,
                   written, created, joined, codec_vars>>

\* get_meeting, lines 220-222: find of the items, then the response
FindMeetingItems(p) ==
    /\ At(p, "read_items")
    /\ proc[p].op = "get_meeting"
    /\ get_meeting_response(proc[p].meeting, FindItems(proc[p].uid)).status = 200
    /\ Return(p)
    /\ NoEmit
    /\ UNCHANGED <<meetings, agenda_items, rooms, uuids, advances, socket_msgs, load,
                   written, created, joined, codec_vars>>

\* get_agenda_items, lines 325-331: up to and including find_one; the
\* document it read is not used again
GetAgendaItems(p, id) ==
    /\ Free(p)
    /\ IF read_meeting_check(id) # Pass
       THEN Return(p)
       ELSE /\ Fetching < load.fetches
            /\ Continue(p, [Idle EXCEPT !.op = "get_agenda_items", !.pc = "read_items",
                                          !.uid = to_uuid(id)])
    /\ NoEmit
    /\ UNCHANGED <<meetings, agenda_items, rooms, uuids, advances, socket_msgs, load,
                   written, created, joined, codec_vars>>

\* get_agenda_items, lines 333-335: find of the items, then jsonify
FindAgendaItems(p, encodes) ==
    /\ At(p, "read_items")
    /\ proc[p].op = "get_agenda_items"
    /\ get_agenda_items_response(FindItems(proc[p].uid), encodes).status \in {200, 500}
    /\ Return(p)
    /\ NoEmit
    /\ UNCHANGED <<meetings, agenda_items, rooms, uuids, advances, socket_msgs, load,
                   written, created, joined, codec_vars>>

GetMeetingIdFromCode(p, code) ==
    /\ Free(p)
    /\ get_meeting_id_from_code(code).status \in {200, 400, 404}
    /\ Return(p)
    /\ NoEmit
    /\ UNCHANGED <<meetings, agenda_items, rooms, uuids, advances, socket_msgs, load,
                   written, created, joined, codec_vars>>

(***************************************************************************)
(* update_meeting, lines 224-281.                                          *)
(***************************************************************************)
\* line 249: type(new_index) is not int or new_index < 0
InvalidIndex(v) == v.k # "int" \/ v.n < 0

\* the comparison off by one: the index equal to the count passes
OutOfRangeOffByOne(new_index, item_count) == new_index > item_count

\* the comparison left out
OutOfRangeUnchecked(new_index, item_count) == FALSE

\* line 256: new_index >= item_count
OutOfRange(new_index, item_count) == new_index >= item_count

\* the maximum left out: -1 for an empty agenda
MaxValidIndexUnclamped(item_count) == item_count - 1

\* line 259: max(item_count - 1, 0)
MaxValidIndex(item_count) == IF item_count - 1 > 0 THEN item_count - 1 ELSE 0

\* lines 257-261
OutOfRangeBody(item_count) ==
    [error |-> "current_item is out of range",
     max_valid_index |-> MaxValidIndex(item_count),
     agenda_items |-> item_count]

\* the body tested before the meeting is looked up
update_meeting_check_body_first(id, body) ==
    LET uid == to_uuid(id)
    IN  IF uid = None
        THEN Response(400, Error("Invalid UUID"))
        ELSE IF Falsy(body)
        THEN Response(400, Error("Request body required"))
        ELSE IF FindMeetingById(uid) = NoDoc
        THEN Response(404, Error("Meeting not found"))
        ELSE IF ~Has(body.obj, "current_item")
        THEN Response(400, Error("No valid fields to update"))
        ELSE IF InvalidIndex(body.obj["current_item"])
        THEN Response(400, Error("current_item must be a non-negative integer"))
        ELSE Pass

\* lines 231-250, and 265-266 for a body without current_item
update_meeting_check(id, body) ==
    LET uid == to_uuid(id)
    IN  IF uid = None
        THEN Response(400, Error("Invalid UUID"))
        ELSE IF FindMeetingById(uid) = NoDoc
        THEN Response(404, Error("Meeting not found"))
        ELSE IF Falsy(body)
        THEN Response(400, Error("Request body required"))
        ELSE IF ~Has(body.obj, "current_item")
        THEN Response(400, Error("No valid fields to update"))
        ELSE IF InvalidIndex(body.obj["current_item"])
        THEN Response(400, Error("current_item must be a non-negative integer"))
        ELSE Pass

UpdateMeeting(p, id, body) ==
    /\ Free(p)
    /\ IF update_meeting_check(id, body) # Pass
       THEN Return(p) /\ UNCHANGED advances
       ELSE /\ advances < load.advances
            /\ advances' = advances + 1
            /\ Continue(p, [Idle EXCEPT !.op = "update_meeting",
                                        !.pc = "count_documents",
                                        !.uid = to_uuid(id),
                                        !.new_index = body.obj["current_item"].n,
                                        !.call = advances + 1])
    /\ NoEmit
    /\ UNCHANGED <<meetings, agenda_items, rooms, uuids, socket_msgs, load, written,
                   created, joined, codec_vars>>

\* lines 256-261, with the count read at line 253
count_response(new_index, item_count) ==
    IF OutOfRange(new_index, item_count)
    THEN Response(400, OutOfRangeBody(item_count))
    ELSE Pass

\* lines 253-263
CountDocuments(p) ==
    LET l == proc[p]
        item_count == CountItems(l.uid)
        counted == [l EXCEPT !.item_count = item_count]
    IN  /\ At(p, "count_documents")
        /\ IF count_response(l.new_index, item_count) # Pass
           THEN Return(p)
           ELSE Continue(p, [counted EXCEPT !.pc = "update_one"])
        /\ NoEmit
        /\ UNCHANGED <<meetings, agenda_items, rooms, uuids, advances, socket_msgs, load,
                       written, created, joined, codec_vars>>

\* lines 269-272
UpdateOne(p) ==
    LET l == proc[p]
    IN  /\ At(p, "update_one")
        /\ meetings' = UpdateCurrentItem(l.uid, l.new_index)
        /\ written' = Append(written, [meeting_id |-> l.uid, current_item |-> l.new_index,
                                       call |-> l.call, item_count |-> l.item_count,
                                       count |-> CountItems(l.uid)])
        /\ Continue(p, [l EXCEPT !.pc = "find_updated"])
        /\ NoEmit
        /\ UNCHANGED <<agenda_items, rooms, uuids, advances, socket_msgs, load,
                       created, joined, codec_vars>>

\* line 275
FindUpdated(p) ==
    LET l == proc[p]
    IN  /\ At(p, "find_updated")
        /\ Continue(p, [l EXCEPT !.pc = "find_items",
                                 !.updated_meeting = FindMeetingById(l.uid)])
        /\ NoEmit
        /\ UNCHANGED <<meetings, agenda_items, rooms, uuids, advances, socket_msgs, load,
                       written, created, joined, codec_vars>>

\* line 276
FindUpdatedItems(p) ==
    LET l == proc[p]
    IN  /\ At(p, "find_items")
        /\ Continue(p, [l EXCEPT !.pc = "emit_first", !.items = FindItems(l.uid)])
        /\ NoEmit
        /\ UNCHANGED <<meetings, agenda_items, rooms, uuids, advances, socket_msgs, load,
                       written, created, joined, codec_vars>>

\* the event of line 278
PointerEvent(l) ==
    Event("Next Agenda Item", l.uid,
          [meeting_id |-> l.uid, current_item |-> l.new_index], l.call)

\* the event of line 279
SnapshotEvent(l) ==
    Event("meeting_updated", l.uid, serialize_meeting(l.updated_meeting, l.items),
          l.call)

\* the two emits in the other order
UpdateEventsSwapped(l) == <<SnapshotEvent(l), PointerEvent(l)>>

\* the emits of the handler in the order it makes them, lines 278-279
UpdateEvents(l) == <<PointerEvent(l), SnapshotEvent(l)>>

\* line 281
update_meeting_response(l) ==
    Response(200, serialize_meeting(l.updated_meeting, l.items))

\* line 278; an emit that raises ends the request with status 500
EmitFirst(p, delivered) ==
    LET l == proc[p]
    IN  /\ At(p, "emit_first")
        /\ Emit(UpdateEvents(l)[1], rooms, delivered)
        /\ IF delivered
           THEN Continue(p, [l EXCEPT !.pc = "emit_second"])
           ELSE Return(p)
        /\ UNCHANGED <<meetings, agenda_items, rooms, uuids, advances, socket_msgs, load,
                       written, created, joined, codec_vars>>

\* lines 279-281
EmitSecond(p, delivered) ==
    LET l == proc[p]
    IN  /\ At(p, "emit_second")
        /\ Emit(UpdateEvents(l)[2], rooms, delivered)
        /\ IF delivered
           THEN Return(p)
           ELSE Return(p)
        /\ UNCHANGED <<meetings, agenda_items, rooms, uuids, advances, socket_msgs, load,
                       written, created, joined, codec_vars>>

(***************************************************************************)
(* add_agenda_item, lines 283-317.                                         *)
(***************************************************************************)
\* number of add_agenda_item calls between validation and insert_one
Inserting == Cardinality({p \in Procs : proc[p].pc = "insert_one"})

\* lines 290-306
add_agenda_item_check(id, body) ==
    LET uid == to_uuid(id)
        item == serialize_agenda_item(body.obj["item"])
    IN  IF uid = None
        THEN Response(400, Error("Invalid UUID"))
        ELSE IF FindMeetingById(uid) = NoDoc
        THEN Response(404, Error("Meeting not found"))
        ELSE IF Falsy(body) \/ ~Has(body.obj, "item")
        THEN Response(400, Error("item required"))
        ELSE IF item = ReturnedNone
        THEN Response(400, Error("Invalid agenda item type"))
        ELSE IF ~item.ok
        THEN Response(400, Error(item.error))
        ELSE Pass

AddAgendaItem(p, id, body) ==
    /\ Free(p)
    /\ IF add_agenda_item_check(id, body) # Pass
       THEN Return(p)
       ELSE /\ Len(agenda_items) + Inserting < load.items
            /\ Continue(p, [Idle EXCEPT !.op = "add_agenda_item", !.pc = "insert_one",
                                        !.uid = to_uuid(id), !.body = body,
                                        !.item = serialize_agenda_item(body.obj["item"]).item])
    /\ NoEmit
    /\ UNCHANGED <<meetings, agenda_items, rooms, uuids, advances, socket_msgs, load,
                   written, created, joined, codec_vars>>

\* lines 309-312
InsertItem(p) ==
    LET l == proc[p]
        oid == Len(agenda_items) + 1
    IN  /\ At(p, "insert_one")
        /\ agenda_items' = InsertOne(agenda_items, AgendaDoc(l.uid, l.item, oid))
        /\ Continue(p, [l EXCEPT !.pc = "emit_added", !.inserted = oid])
        /\ NoEmit
        /\ UNCHANGED <<meetings, rooms, uuids, advances, socket_msgs, load, written,
                       created, joined, codec_vars>>

\* the event of line 315
AddedEvent(l) ==
    Event("agenda_item_added", l.uid, [meeting_id |-> l.uid, item |-> l.item],
          l.inserted)

\* line 317
add_agenda_item_response == Response(201, [message |-> "Agenda item added"])

\* a handler that takes the inserted document out again when the emit raises
EmitAddedRollsBack(p, delivered) ==
    LET l == proc[p]
    IN  /\ At(p, "emit_added")
        /\ Emit(AddedEvent(l), rooms, delivered)
        /\ agenda_items' = IF delivered THEN agenda_items
                           ELSE SelectSeq(agenda_items, LAMBDA d : d["_id"] # l.inserted)
        /\ Return(p)
        /\ UNCHANGED <<meetings, rooms, uuids, advances, socket_msgs, load,
                       written, created, joined, codec_vars>>

\* lines 315-317; an emit that raises ends the request with status 500
EmitAdded(p, delivered) ==
    LET l == proc[p]
    IN  /\ At(p, "emit_added")
        /\ Emit(AddedEvent(l), rooms, delivered)
        /\ IF delivered
           THEN Return(p)
           ELSE Return(p)
        /\ UNCHANGED <<meetings, agenda_items, rooms, uuids, advances, socket_msgs, load,
                       written, created, joined, codec_vars>>

(***************************************************************************)
(* Socket.IO handlers, lines 38-52.  data is the message of the client;    *)
(* its meeting_id is used as the room name as it comes.  The emits of      *)
(* these handlers are taken to succeed.                                    *)
(***************************************************************************)
\* a join that takes a member out again
JoinRoomToggles(c, room) ==
    [rooms EXCEPT ![room] = IF c \in @ THEN @ \ {c} ELSE @ \cup {c}]

\* join_room(room), line 41
JoinRoom(c, room) == [rooms EXCEPT ![room] = @ \cup {c}]

\* leave_room(room), line 47
LeaveRoom(c, room) == [rooms EXCEPT ![room] = @ \ {c}]

\* lines 42 and 48
StatusEvent(text, room) ==
    Event("status", room,
          [msg |-> "User has " \o text \o " the meeting " \o room \o "."], 0)

\* lines 38-42
OnJoin(c, data) ==
    LET meeting_id == data.meeting_id
    IN  /\ socket_msgs < load.socket_msgs
        /\ socket_msgs' = socket_msgs + 1
        /\ rooms' = JoinRoom(c, meeting_id)
        /\ joined' = [joined EXCEPT ![c] = @ \cup {meeting_id}]
        /\ Emit(StatusEvent("entered", meeting_id), rooms', TRUE)
        /\ UNCHANGED <<meetings, agenda_items, proc, uuids, advances, load, written,
                       created, codec_vars>>

\* lines 44-48
OnLeave(c, data) ==
    LET meeting_id == data.meeting_id
    IN  /\ socket_msgs < load.socket_msgs
        /\ socket_msgs' = socket_msgs + 1
        /\ rooms' = LeaveRoom(c, meeting_id)
        /\ joined' = [joined EXCEPT ![c] = @ \ {meeting_id}]
        /\ Emit(StatusEvent("left", meeting_id), rooms', TRUE)
        /\ UNCHANGED <<meetings, agenda_items, proc, uuids, advances, load, written,
                       created, codec_vars>>

\* lines 50-52: the message is sent on to the room it names
moving_on_to_next_agenda_item(c, data) ==
    /\ socket_msgs < load.socket_msgs
    /\ socket_msgs' = socket_msgs + 1
    /\ Emit(Event("Next Agenda Item", data.meeting_id, data, 0), rooms, TRUE)
    /\ UNCHANGED <<meetings, agenda_items, rooms, proc, uuids, advances, load, written,
                   created, joined, codec_vars>>

\* messages of clients: {meeting_id} for join and leave
RoomMessages == {[meeting_id |-> r] : r \in RoomNames}

\* messages of clients for 'Next Agenda Item'
PointerMessages == {[meeting_id |-> r, current_item |-> MaxItems + 5] : r \in RoomNames}

(***************************************************************************)
(* The system: requests and messages arrive in any order, handlers are     *)
(* interleaved at their database calls and broadcasts.                     *)
(***************************************************************************)
Init ==
    /\ MainInit
    /\ load \in Loads
    /\ codec_in = <<>>
    /\ codec_out = NotRun

Next ==
    \/ \E p \in Procs, body \in CreateBodies, n \in Draws : CreateMeeting(p, body, n)
    \/ \E p \in Procs, n \in Draws : RetryCode(p, n)
    \/ \E p \in Procs : InsertMeeting(p)
    \/ \E p \in Procs, id \in IdInputs : GetMeeting(p, id)
    \/ \E p \in Procs : FindMeetingItems(p)
    \/ \E p \in Procs, id \in IdInputs : GetAgendaItems(p, id)
    \/ \E p \in Procs, encodes \in BOOLEAN : FindAgendaItems(p, encodes)
    \/ \E p \in Procs, code \in CodeInputs : GetMeetingIdFromCode(p, code)
    \/ \E p \in Procs, id \in IdInputs, body \in UpdateBodies : UpdateMeeting(p, id, body)
    \/ \E p \in Procs : CountDocuments(p)
    \/ \E p \in Procs : UpdateOne(p)
    \/ \E p \in Procs : FindUpdated(p)
    \/ \E p \in Procs : FindUpdatedItems(p)
    \/ \E p \in Procs, delivered \in BOOLEAN : EmitFirst(p, delivered)
    \/ \E p \in Procs, delivered \in BOOLEAN : EmitSecond(p, delivered)
    \/ \E p \in Procs, id \in IdInputs, body \in AddBodies : AddAgendaItem(p, id, body)
    \/ \E p \in Procs : InsertItem(p)
    \/ \E p \in Procs, delivered \in BOOLEAN : EmitAdded(p, delivered)
    \/ \E c \in Conns, data \in RoomMessages : OnJoin(c, data)
    \/ \E c \in Conns, data \in RoomMessages : OnLeave(c, data)
    \/ \E c \in Conns, data \in PointerMessages : moving_on_to_next_agenda_item(c, data)

Spec == Init /\ [][Next]_vars

(***************************************************************************)
(* The codec on its own: the input is any object of the value space above. *)
(***************************************************************************)
CodecInit ==
    /\ MainInit
    /\ load = [meetings |-> 0, items |-> 0, advances |-> 0, socket_msgs |-> 0,
               fetches |-> 0]
    /\ \E t \in Options("type"), ti \in Options("title"),
          de \in Options("description"), po \in Options("positions"),
          bm \in Options("baseMotions"), co \in Options("comment") :
          codec_in = MakeItem([type |-> t, title |-> ti, description |-> de,
                               positions |-> po, baseMotions |-> bm, comment |-> co])
    /\ codec_out = NotRun

Serialize ==
    /\ codec_out = NotRun
    /\ codec_out' = serialize_agenda_item(codec_in)
    /\ UNCHANGED <<codec_in, main_vars>>

CodecNext == Serialize

SpecCodec == CodecInit /\ [][CodecNext]_vars

(***************************************************************************)
(* Code generation on its own: more create_meeting requests than there are *)
(* codes to draw.  random.randint is fair: a loop that keeps drawing while *)
(* some code is free draws a free one at some time.                        *)
(***************************************************************************)
CodesInit ==
    /\ MainInit
    /\ load = [meetings |-> MaxDraw + 2, items |-> 0, advances |-> 0, socket_msgs |-> 0,
               fetches |-> 0]
    /\ codec_in = <<>>
    /\ codec_out = NotRun

\* line 69 draws a code that line 70 finds free
FreshDraw(p) ==
    \E n \in Draws : RetryCode(p, n) /\ proc'[p].pc = "insert_meeting"

CodesNext ==
    \/ \E p \in Procs, body \in CreateBodies, n \in Draws : CreateMeeting(p, body, n)
    \/ \E p \in Procs, n \in Draws : RetryCode(p, n)
    \/ \E p \in Procs : InsertMeeting(p)
    \/ \E p \in Procs, code \in CodeInputs : GetMeetingIdFromCode(p, code)

SpecCodes ==
    CodesInit /\ [][CodesNext]_vars /\ \A p \in Procs : WF_vars(FreshDraw(p))

(***************************************************************************)
(* Observers of one meeting: one create_meeting, agenda items of one kind, *)
(* one join and concurrent update_meeting calls; every emit goes through.  *)
(***************************************************************************)
ObserversInit ==
    /\ MainInit
    /\ load = [meetings |-> 1, items |-> MaxItems, advances |-> MaxAdvances,
               socket_msgs |-> 1, fetches |-> 0]
    /\ codec_in = <<>>
    /\ codec_out = NotRun

ObserversNext ==
    \/ \E p \in Procs : CreateMeeting(p, Json([meeting_name |-> "Board Sync"]), 0)
    \/ \E p \in Procs : InsertMeeting(p)
    \/ \E p \in Procs : AddAgendaItem(p, UuidPool[1], Json([item |-> Welcome]))
    \/ \E p \in Procs : InsertItem(p)
    \/ \E p \in Procs : EmitAdded(p, TRUE)
    \/ \E c \in Conns : OnJoin(c, [meeting_id |-> UuidPool[1]])
    \/ \E p \in Procs, body \in UpdateBodies : UpdateMeeting(p, UuidPool[1], body)
    \/ \E p \in Procs : CountDocuments(p)
    \/ \E p \in Procs : UpdateOne(p)
    \/ \E p \in Procs : FindUpdated(p)
    \/ \E p \in Procs : FindUpdatedItems(p)
    \/ \E p \in Procs : EmitFirst(p, TRUE)
    \/ \E p \in Procs : EmitSecond(p, TRUE)

SpecObservers == ObserversInit /\ [][ObserversNext]_vars

(***************************************************************************)
(* Properties.                                                             *)
(***************************************************************************)
\* C1: every persisted meeting has 0 <= current_item < its number of agenda
\* items when it has items, and current_item = 0 when it has none.
C1_PointerWithinBounds ==
    \A i \in 1..Len(meetings) :
        LET n == Cardinality({j \in 1..Len(agenda_items) :
                                agenda_items[j]["meeting_id"] = meetings[i].meeting_id})
        IN  IF n = 0
            THEN meetings[i].current_item = 0
            ELSE 0 <= meetings[i].current_item /\ meetings[i].current_item < n

\* C1 witness: a meeting with two items whose pointer was moved to the second
C1_Witness ==
    \E i \in 1..Len(meetings) :
        /\ meetings[i].current_item = 1
        /\ CountItems(meetings[i].meeting_id) = 2
        /\ \E k \in 1..Len(written) : written[k].meeting_id = meetings[i].meeting_id

\* C2: once update_meeting has written new_index for a meeting, a
\* get_meeting on it passes its checks under either spelling of the id, and
\* the find_one (line 216) of a get_meeting that starts from then on reads
\* the new_index of the last such write, whatever else has run since the
\* write; its response is 200 and carries the current_item it read,
\* whatever runs between its two reads.
C2_FetchReturnsLastWrite ==
    /\ [](\A id \in IdInputs :
            (\E k \in 1..Len(written) : written[k].meeting_id = to_uuid(id)) =>
                read_meeting_check(id) = Pass)
    /\ [][\A p \in Procs :
            /\ (proc[p].pc = "done" /\ proc'[p].op = "get_meeting") =>
                  LET mine == SelectSeq(written,
                                        LAMBDA w : w.meeting_id = proc'[p].uid)
                  IN  mine # <<>> =>
                         proc'[p].meeting.current_item = mine[Len(mine)].current_item
            /\ (proc[p].op = "get_meeting" /\ proc'[p].pc = "done") =>
                  LET r == get_meeting_response(proc[p].meeting, FindItems(proc[p].uid))
                  IN  /\ r.status = 200
                      /\ r.body.meeting_id = proc[p].uid
                      /\ r.body.current_item = proc[p].meeting.current_item]_vars

\* C2 witness: an advance to index 1 has returned and a get_meeting that
\* read the meeting after it is about to answer
C2_Witness ==
    /\ Len(written) = 1
    /\ written[1].current_item = 1
    /\ \E p \in Procs :
          /\ proc[p].op = "get_meeting"
          /\ proc[p].pc = "read_items"
          /\ proc[p].meeting.current_item = 1
          /\ \A q \in Procs \ {p} : proc[q].pc = "done"

\* C3: update_meeting with a non-negative integer on an existing meeting
\* answers the out-of-range error exactly when new_index >= the count it
\* read, with agenda_items = that count and max_valid_index = count - 1
\* (0 for count 0), and writes nothing then; otherwise it goes on to write,
\* so every write has new_index < the count read.
C3_OutOfRangeExactly ==
    /\ [](\A k \in 1..Len(written) : written[k].current_item < written[k].item_count)
    /\ [][\A p \in Procs :
            (proc[p].pc = "count_documents" /\ proc'[p] # proc[p]) =>
                LET n == CountItems(proc[p].uid)
                    i == proc[p].new_index
                IN  IF i >= n
                    THEN /\ count_response(i, n) =
                              [status |-> 400,
                               body |-> [error |-> "current_item is out of range",
                                         max_valid_index |-> IF n = 0 THEN 0 ELSE n - 1,
                                         agenda_items |-> n]]
                         /\ proc'[p].pc = "done"
                         /\ meetings' = meetings /\ written' = written
                    ELSE /\ count_response(i, n) = Pass
                         /\ proc'[p].pc = "update_one"
                         /\ proc'[p].item_count = n]_vars

\* C3 witness: an advance passed validation and ended without a write, on a
\* meeting that has an item
C3_Witness ==
    /\ advances = 1
    /\ written = <<>>
    /\ \A p \in Procs : proc[p].pc = "done"
    /\ Len(agenda_items) = 1

\* C4: no two persisted meetings have the same meeting_code.
C4_CodesUnique ==
    \A i, j \in 1..Len(meetings) :
        i # j => meetings[i].meeting_code # meetings[j].meeting_code

\* C5: for every 201 response of create_meeting, the lookup of its
\* meeting_code answers 200 with its meeting_id.
C5_LookupRoundTrip ==
    \A r \in created :
        get_meeting_id_from_code(r.body.meeting_code) = Response(200, r.body.meeting_id)

\* C6: every broadcast reaches exactly the connections that have joined the
\* room it is sent to and have not left it: each of them gets the event at
\* the end of its inbox, every other connection gets nothing, and a step
\* without a broadcast delivers nothing.
C6_RoomDelivery ==
    [][\A c \in Conns :
          IF wire'.delivered /\ wire'.ev.room \in joined'[c]
          THEN inbox'[c] = Append(inbox[c], wire'.ev)
          ELSE inbox'[c] = inbox[c]]_vars

\* C6 witness: a connection in the room got the pointer event of an
\* update_meeting call, a connection outside it got nothing
C6_Witness ==
    \E c, d \in Conns :
        /\ joined[c] # {} /\ joined[d] = {} /\ inbox[d] = <<>>
        /\ \E k \in 1..Len(inbox[c]) :
              /\ inbox[c][k].name = "Next Agenda Item"
              /\ inbox[c][k].call >= 1
              /\ inbox[c][k].room \in joined[c]

\* C7: the events of an update_meeting call are sent after its write, the
\* pointer event while the snapshot is still to come, and a connection that
\* has both events of a call has the pointer event first.
C7_PersistPointerSnapshot ==
    /\ (wire.ev.name \in {"Next Agenda Item", "meeting_updated"} /\ wire.ev.call >= 1) =>
          \E k \in 1..Len(written) :
              /\ written[k].call = wire.ev.call
              /\ written[k].meeting_id = wire.ev.room
    /\ (wire.ev.name = "Next Agenda Item" /\ wire.ev.call >= 1 /\ wire.delivered) =>
          /\ \E p \in Procs : proc[p].pc = "emit_second" /\ proc[p].call = wire.ev.call
          /\ \A c \in Conns : \A k \in 1..Len(inbox[c]) :
                ~(inbox[c][k].name = "meeting_updated" /\ inbox[c][k].call = wire.ev.call)
    /\ \A c \in Conns : \A i, j \in 1..Len(inbox[c]) :
          ( /\ inbox[c][i].name = "Next Agenda Item"
            /\ inbox[c][j].name = "meeting_updated"
            /\ inbox[c][i].call >= 1
            /\ inbox[c][i].call = inbox[c][j].call ) => i < j

\* C7 witness: a connection holds both events of one call, whose write is
\* in the database
C7_Witness ==
    \E c \in Conns : \E i, j \in 1..Len(inbox[c]) :
        /\ inbox[c][i].name = "Next Agenda Item"
        /\ inbox[c][j].name = "meeting_updated"
        /\ inbox[c][i].call >= 1
        /\ inbox[c][i].call = inbox[c][j].call
        /\ \E k \in 1..Len(written) : written[k].call = inbox[c][i].call

\* C8: a step that changes the agenda items is the insert of one
\* add_agenda_item call: the agenda of its meeting gets one document at its
\* end, the codec's output for the item of the request body, every other
\* agenda stays as it is; and an agenda_item_added event is sent only for a
\* document that is in the database, to the room of its meeting, with
\* {meeting_id, item} of that document.
C8_AppendThenBroadcast ==
    /\ [][agenda_items' # agenda_items =>
            \E p \in Procs :
                LET canonical == serialize_agenda_item(proc[p].body.obj["item"])
                    doc == agenda_items'[Len(agenda_items')]
                IN  /\ proc[p].pc = "insert_one"
                    /\ canonical.ok
                    /\ doc["meeting_id"] = proc[p].uid
                    /\ [key \in (DOMAIN doc) \ {"_id", "meeting_id"} |-> doc[key]]
                          = canonical.item
                    /\ \A r \in RoomNames :
                          FindItems(r)' = IF r = proc[p].uid
                                          THEN Append(FindItems(r), doc)
                                          ELSE FindItems(r)]_vars
    /\ [](wire.ev.name = "agenda_item_added" =>
            \E i \in 1..Len(agenda_items) :
                /\ agenda_items[i]["_id"] = wire.ev.call
                /\ agenda_items[i]["meeting_id"] = wire.ev.room
                /\ wire.ev.data.meeting_id = wire.ev.room
                /\ wire.ev.data.item =
                      [key \in (DOMAIN agenda_items[i]) \ {"_id", "meeting_id"} |->
                          agenda_items[i][key]])

\* C8 witness: the second item of a meeting is in the database after the
\* first, from an input with a field the codec drops, and its event was sent
C8_Witness ==
    /\ Len(agenda_items) = 2
    /\ agenda_items[1]["meeting_id"] = agenda_items[2]["meeting_id"]
    /\ agenda_items[1] # agenda_items[2]
    /\ wire.ev.name = "agenda_item_added"
    /\ wire.ev.call = 2
    /\ agenda_items[2]["title"] = Welcome["title"]
    /\ "comment" \notin DOMAIN agenda_items[2]

\* C9: every index update_meeting has written was below the agenda count of
\* its meeting at the write and is below it now, and no step lowers the
\* agenda count of a meeting.
C9_CheckSurvivesInsertion ==
    /\ [](\A k \in 1..Len(written) :
            /\ written[k].current_item < written[k].count
            /\ written[k].current_item < CountItems(written[k].meeting_id))
    /\ [][\A r \in RoomNames : CountItems(r)' >= CountItems(r)]_vars

\* C9 witness: an item was inserted between the count and the write of an
\* update_meeting call
C9_Witness ==
    \E k \in 1..Len(written) :
        /\ written[k].item_count = 1
        /\ written[k].count = 2
        /\ written[k].current_item = 0

\* C10: an accepted item comes out with exactly the keys of its variant,
\* each with the value the input has for it.
C10_ExactVariantFields ==
    codec_out.ok =>
        LET t == codec_in["type"].s
            fields == IF t = "election" THEN {"type", "title", "positions"}
                      ELSE IF t = "motion"
                      THEN {"type", "title", "description", "baseMotions"}
                      ELSE IF t = "info" THEN {"type", "title", "description"}
                      ELSE {}
        IN  /\ fields # {}
            /\ DOMAIN codec_out.item = fields
            /\ \A key \in fields : codec_out.item[key] = codec_in[key]

\* C10 witness: an accepted motion whose input also has positions and a
\* comment
C10_Witness ==
    /\ codec_out.ok
    /\ codec_in["type"].s = "motion"
    /\ {"positions", "comment"} \subseteq DOMAIN codec_in
    /\ DOMAIN codec_out.item # DOMAIN codec_in

\* C11: a rejected item gets the error of the first violated rule in the
\* order: type present, type one of election/motion/info, title present and
\* text, then the fields of the variant.
C11_TypeBeforeTitle ==
    codec_out # NotRun =>
        LET item == codec_in
            known == /\ "type" \in DOMAIN item
                     /\ item["type"].k = "str"
                     /\ item["type"].s \in {"election", "motion", "info"}
            titled == "title" \in DOMAIN item /\ item["title"].k = "str"
        IN  /\ "type" \notin DOMAIN item =>
                  codec_out = Rejected("Agenda item must include type")
            /\ ("type" \in DOMAIN item /\ ~known) =>
                  (~codec_out.ok /\ codec_out.error \in {None, "Invalid agenda item type"})
            /\ (known /\ ~titled) =>
                  codec_out = Rejected("Agenda item must have title")
            /\ (known /\ titled /\ item["type"].s = "info"
                  /\ "description" \notin DOMAIN item) =>
                  codec_out = Rejected("Info agenda item must have description")
            /\ (known /\ titled /\ item["type"].s = "motion"
                  /\ "description" \notin DOMAIN item) =>
                  codec_out = Rejected("Motion agenda item must have description")
            /\ (known /\ titled /\ item["type"].s = "election"
                  /\ "positions" \notin DOMAIN item) =>
                  codec_out = Rejected("Election agenda item must have positions list")

\* C15: an item of a known type whose title is missing, not text or the
\* empty text is rejected with the title error, and an election with an
\* empty positions list and a title is accepted.
C15_EmptyTitleRejected ==
    (/\ codec_out # NotRun
     /\ "type" \in DOMAIN codec_in
     /\ codec_in["type"].k = "str"
     /\ codec_in["type"].s \in {"election", "motion", "info"}) =>
        /\ ( \/ "title" \notin DOMAIN codec_in
             \/ codec_in["title"].k # "str"
             \/ codec_in["title"].s = "" ) =>
                codec_out = Rejected("Agenda item must have title")
        /\ ( /\ codec_in["type"].s = "election"
             /\ "title" \in DOMAIN codec_in
             /\ codec_in["title"].k = "str"
             /\ codec_in["title"].s # ""
             /\ "positions" \in DOMAIN codec_in
             /\ codec_in["positions"] = List(<<>>) ) => codec_out.ok

\* C12: generate_unique_meeting_code returns only a code of six digits that
\* its find_one found free, draws again only when a code is taken, never
\* returns while every code is taken, and under fair draws a call does not
\* stay in the loop for ever while some code is free.
C12_CodeLoop ==
    /\ [][\A p \in Procs :
            /\ (proc'[p].pc = "insert_meeting" /\ proc[p].pc # "insert_meeting") =>
                  /\ Len(proc'[p].meeting_code) = CodeLen
                  /\ IsDigit(proc'[p].meeting_code)
                  /\ \A i \in 1..Len(meetings) :
                        meetings[i].meeting_code # proc'[p].meeting_code
            /\ (proc'[p].pc = "generate_code" /\ proc'[p] # proc[p]) =>
                  meetings # <<>>
            /\ (proc[p].pc = "generate_code"
                  /\ \A n \in Draws : \E i \in 1..Len(meetings) :
                        meetings[i].meeting_code = FormatCode(n)) =>
                  proc'[p].pc = "generate_code"]_vars
    /\ \A p \in Procs :
          [](proc[p].pc = "generate_code" =>
                <>( \/ proc[p].pc # "generate_code"
                    \/ \A n \in Draws : \E i \in 1..Len(meetings) :
                          meetings[i].meeting_code = FormatCode(n) ))

\* C12 witness: every code is taken and a create_meeting call is in the loop
C12_Witness ==
    /\ \A n \in Draws : \E i \in 1..Len(meetings) :
          meetings[i].meeting_code = FormatCode(n)
    /\ \E p \in Procs : proc[p].pc = "generate_code"

\* C13: a step in which the emit of add_agenda_item or update_meeting
\* raises leaves the meetings and the agenda items as they are, with the
\* inserted document, or the written current_item, still in the database.
C13_FailedEmitKeepsWrite ==
    [][(wire'.ev.call >= 1 /\ ~wire'.delivered) =>
          /\ meetings' = meetings
          /\ agenda_items' = agenda_items
          /\ wire'.ev.name = "agenda_item_added" =>
                \E i \in 1..Len(agenda_items') :
                    /\ agenda_items'[i]["_id"] = wire'.ev.call
                    /\ agenda_items'[i]["meeting_id"] = wire'.ev.room
          /\ wire'.ev.name \in {"Next Agenda Item", "meeting_updated"} =>
                \E k \in 1..Len(written') :
                    /\ written'[k].call = wire'.ev.call
                    /\ \/ \E i \in 1..Len(meetings') :
                              /\ meetings'[i].meeting_id = wire'.ev.room
                              /\ meetings'[i].current_item = written'[k].current_item
                       \/ \E j \in (k + 1)..Len(written') :
                              written'[j].meeting_id = written'[k].meeting_id]_vars

\* C13 witness: the emit of an update_meeting call that wrote index 1 has
\* raised, the request is over and the meeting still has current_item 1
C13_Witness ==
    /\ wire.ev.name = "Next Agenda Item"
    /\ wire.ev.call >= 1
    /\ ~wire.delivered
    /\ wire.ev.data.current_item = 1
    /\ \A p \in Procs : proc[p].pc = "done"
    /\ FindMeetingById(wire.ev.room).current_item = 1

\* C14: no step removes or reorders a meeting or an agenda item or changes
\* an agenda item or a meeting's meeting_id, meeting_name or meeting_code;
\* a meeting's current_item changes only in the update_one step of an
\* update_meeting call for that meeting that passed its checks, to the
\* new_index of the call.
C14_Frame ==
    [][/\ Len(meetings') >= Len(meetings)
       /\ Len(agenda_items') >= Len(agenda_items)
       /\ \A i \in 1..Len(agenda_items) : agenda_items'[i] = agenda_items[i]
       /\ \A i \in 1..Len(meetings) :
             /\ meetings'[i].meeting_id = meetings[i].meeting_id
             /\ meetings'[i].meeting_name = meetings[i].meeting_name
             /\ meetings'[i].meeting_code = meetings[i].meeting_code
             /\ meetings'[i].current_item # meetings[i].current_item =>
                   \E p \in Procs :
                       /\ proc[p].op = "update_meeting"
                       /\ proc[p].pc = "update_one"
                       /\ proc'[p].pc = "find_updated"
                       /\ proc[p].uid = meetings[i].meeting_id
                       /\ proc[p].new_index >= 0
                       /\ proc[p].new_index < proc[p].item_count
                       /\ meetings'[i].current_item = proc[p].new_index
                       /\ agenda_items' = agenda_items]_vars

\* C14 witness: a meeting was moved to index 1 and back to 0, with its name
\* and two agenda items in place
C14_Witness ==
    /\ Len(written) = 2
    /\ written[1].current_item = 1
    /\ written[2].current_item = 0
    /\ Len(agenda_items) = 2
    /\ Len(meetings) = 1
    /\ meetings[1].meeting_name = "Board Sync"
    /\ meetings[1].current_item = 0

\* C16: a join leaves the connection a member of the room, changes nothing
\* when it already was one and never touches another room; a leave takes
\* the connection out of the room whatever the number of joins before it
\* and touches no other room; no step delivers an event twice.
C16_JoinIdempotent ==
    [][/\ \A c \in Conns, data \in RoomMessages :
             /\ OnJoin(c, data) =>
                   /\ c \in rooms'[data.meeting_id]
                   /\ rooms'[data.meeting_id] \ {c} = rooms[data.meeting_id] \ {c}
                   /\ c \in rooms[data.meeting_id] => rooms' = rooms
                   /\ \A r \in RoomNames \ {data.meeting_id} : rooms'[r] = rooms[r]
             /\ OnLeave(c, data) =>
                   /\ c \notin rooms'[data.meeting_id]
                   /\ rooms'[data.meeting_id] = rooms[data.meeting_id] \ {c}
                   /\ \A r \in RoomNames \ {data.meeting_id} : rooms'[r] = rooms[r]
       /\ \A c \in Conns : Len(inbox'[c]) <= Len(inbox[c]) + 1]_vars

\* C16 witness: a connection joined a room twice, getting the status of
\* each join once, and one leave took it out; the other connection never
\* joined
C16_Witness ==
    \E c, d \in Conns :
        /\ c # d
        /\ inbox[d] = <<>>
        /\ Len(inbox[c]) = 2
        /\ inbox[c][1] = inbox[c][2]
        /\ inbox[c][1] = StatusEvent("entered", inbox[c][1].room)
        /\ socket_msgs = 3
        /\ \A r \in RoomNames : rooms[r] = {}

\* C17: update_meeting and add_agenda_item answer the error of the first
\* failing check in the order identifier, meeting, body, then index or
\* item; a handler past its checks holds a request that passes them all;
\* and only a step of a handler past its checks changes the meetings or
\* the agenda items or sends an event of a request.
C17_FailedWritesNoEffect ==
    /\ [](\A id \in IdInputs :
            LET known == \E i \in 1..Len(meetings) : meetings[i].meeting_id = to_uuid(id)
            IN  /\ \A body \in UpdateBodies :
                      update_meeting_check(id, body) =
                          IF to_uuid(id) = None
                          THEN [status |-> 400, body |-> [error |-> "Invalid UUID"]]
                          ELSE IF ~known
                          THEN [status |-> 404, body |-> [error |-> "Meeting not found"]]
                          ELSE IF ~body.present \/ DOMAIN body.obj = {}
                          THEN [status |-> 400, body |-> [error |-> "Request body required"]]
                          ELSE IF "current_item" \in DOMAIN body.obj
                                  /\ ( \/ body.obj["current_item"].k # "int"
                                       \/ body.obj["current_item"].n < 0 )
                          THEN [status |-> 400,
                                body |-> [error |-> "current_item must be a non-negative integer"]]
                          ELSE IF "current_item" \notin DOMAIN body.obj
                          THEN [status |-> 400, body |-> [error |-> "No valid fields to update"]]
                          ELSE Pass
                /\ \A body \in AddBodies :
                      add_agenda_item_check(id, body) =
                          IF to_uuid(id) = None
                          THEN [status |-> 400, body |-> [error |-> "Invalid UUID"]]
                          ELSE IF ~known
                          THEN [status |-> 404, body |-> [error |-> "Meeting not found"]]
                          ELSE IF ~body.present \/ "item" \notin DOMAIN body.obj
                          THEN [status |-> 400, body |-> [error |-> "item required"]]
                          ELSE IF verify_agenda_item(body.obj["item"]) # None
                          THEN [status |-> 400,
                                body |-> [error |-> verify_agenda_item(body.obj["item"])]]
                          ELSE Pass)
    /\ [](\A p \in Procs :
            /\ proc[p].op = "update_meeting" =>
                  /\ \E i \in 1..Len(meetings) : meetings[i].meeting_id = proc[p].uid
                  /\ proc[p].new_index >= 0
                  /\ proc[p].pc # "count_documents" =>
                        proc[p].new_index < proc[p].item_count
            /\ proc[p].op = "add_agenda_item" =>
                  /\ \E i \in 1..Len(meetings) : meetings[i].meeting_id = proc[p].uid
                  /\ verify_agenda_item(proc[p].body.obj["item"]) = None)
    /\ [][(\/ meetings' # meetings
           \/ agenda_items' # agenda_items
           \/ wire'.ev.call >= 1) =>
             \E p \in Procs :
                 /\ proc'[p] # proc[p]
                 /\ proc[p].pc \in {"insert_meeting", "update_one", "insert_one",
                                    "emit_first", "emit_second", "emit_added"}]_vars

\* C17 witness: with one meeting and no agenda item, an update_meeting
\* call passed validation and ended out of range without a write, and the
\* requests for an unknown meeting, without body and with an item without
\* title get their errors
C17_Witness ==
    /\ Len(meetings) = 1
    /\ agenda_items = <<>>
    /\ advances = 1
    /\ written = <<>>
    /\ \A p \in Procs : proc[p].pc = "done"
    /\ update_meeting_check(UuidPool[2], NoBody).status = 404
    /\ update_meeting_check(UuidPool[1], NoBody).status = 400
    /\ add_agenda_item_check(UuidPool[1], Json([item |-> Untitled])).body
          = [error |-> "Agenda item must have title"]

\* C18: every 'Next Agenda Item' event in an inbox carries a current_item
\* that update_meeting has written for the meeting it names.
C18_PointerEventsPersisted ==
    \A c \in Conns : \A k \in 1..Len(inbox[c]) :
        inbox[c][k].name = "Next Agenda Item" =>
            \E w \in 1..Len(written) :
                /\ written[w].meeting_id = inbox[c][k].data.meeting_id
                /\ written[w].current_item = inbox[c][k].data.current_item

\* C19: the pointer event, the snapshot and the response of an
\* update_meeting call carry the new_index of that call as current_item.
C19_CallCarriesOwnIndex ==
    /\ (wire.ev.name \in {"Next Agenda Item", "meeting_updated"} /\ wire.ev.call >= 1) =>
          \A w \in 1..Len(written) :
              written[w].call = wire.ev.call =>
                  wire.ev.data.current_item = written[w].current_item
    /\ \A p \in Procs :
          proc[p].pc \in {"emit_first", "emit_second"} =>
              update_meeting_response(proc[p]).body.current_item = proc[p].new_index

\* C20: when no request is running, a connection in the room of a meeting
\* that got both events of every update_meeting call that wrote to the
\* meeting has, as its last 'Next Agenda Item' event and as its last
\* meeting_updated snapshot of those calls, the meeting's current_item.
C20_ObserversConverge ==
    \A c \in Conns, r \in RoomNames :
        LET calls == {written[w].call : w \in {v \in 1..Len(written) :
                                                written[v].meeting_id = r}}
            pointers == {k \in 1..Len(inbox[c]) :
                            /\ inbox[c][k].name = "Next Agenda Item"
                            /\ inbox[c][k].room = r
                            /\ inbox[c][k].call \in calls}
            snapshots == {k \in 1..Len(inbox[c]) :
                            /\ inbox[c][k].name = "meeting_updated"
                            /\ inbox[c][k].room = r
                            /\ inbox[c][k].call \in calls}
            last(S) == CHOOSE k \in S : \A j \in S : j <= k
            persisted == (CHOOSE i \in 1..Len(meetings) :
                              meetings[i].meeting_id = r)
        IN  ( /\ \A p \in Procs : proc[p].pc = "done"
              /\ c \in rooms[r]
              /\ calls # {}
              /\ \A n \in calls :
                    /\ \E k \in pointers : inbox[c][k].call = n
                    /\ \E k \in snapshots : inbox[c][k].call = n ) =>
                /\ inbox[c][last(pointers)].data.current_item
                      = meetings[persisted].current_item
                /\ inbox[c][last(snapshots)].data.current_item
                      = meetings[persisted].current_item
====
